---- MODULE Spec2Model ----
\* Model of batch_unzip / combine_pdfs (src/批量解压压缩包并合并PDF.py).
\* File names and paths are sequences of one-character strings, so that
\* lower(), endswith(), basename() and the string order used by list.sort()
\* are computed rather than assumed.
EXTENDS Integers, Sequences, FiniteSets, TLC

\* ---------------------------------------------------------------- bounds
\* most entries (files and folders, at any depth) the target directory holds
MaxEntries == 3
\* most files the extraction folder holds before the run starts
MaxStale == 1

\* ---------------------------------------------------------------- strings
\* code points of the characters that occur in the modelled names
Ord(c) ==
    CASE c = "." -> 46 [] c = "/" -> 47
      [] c = "B" -> 66 [] c = "D" -> 68 [] c = "F" -> 70 [] c = "I" -> 73
      [] c = "P" -> 80 [] c = "Z" -> 90
      [] c = "a" -> 97 [] c = "b" -> 98 [] c = "c" -> 99 [] c = "d" -> 100
      [] c = "e" -> 101 [] c = "f" -> 102 [] c = "g" -> 103 [] c = "i" -> 105
      [] c = "l" -> 108 [] c = "m" -> 109 [] c = "n" -> 110 [] c = "o" -> 111
      [] c = "p" -> 112 [] c = "r" -> 114 [] c = "s" -> 115 [] c = "t" -> 116
      [] c = "u" -> 117 [] c = "w" -> 119 [] c = "x" -> 120 [] c = "y" -> 121
      [] c = "z" -> 122

\* str.lower() on one character
LowerChar(c) ==
    CASE c = "B" -> "b" [] c = "D" -> "d" [] c = "F" -> "f" [] c = "I" -> "i"
      [] c = "P" -> "p" [] c = "Z" -> "z"
      [] OTHER -> c

\* str.lower()
Lower(s) == [k \in 1..Len(s) |-> LowerChar(s[k])]

\* str.endswith(suffix)
EndsWith(s, suffix) ==
    /\ Len(s) >= Len(suffix)
    /\ SubSeq(s, Len(s) - Len(suffix) + 1, Len(s)) = suffix

\* Python's order on str: code point by code point, a proper prefix first
StrLess(s, t) ==
    \E k \in 1..(Len(s) + 1) :
        /\ k <= Len(t)
        /\ \A m \in 1..(k - 1) : s[m] = t[m]
        /\ (k = Len(s) + 1 \/ Ord(s[k]) < Ord(t[k]))

\* os.path.join(a, b) for a relative b
OsPathJoin(a, b) == a \o <<"/">> \o b

\* os.path.basename(p): what follows the last "/"
Basename(p) ==
    LET slashes == {k \in 1..Len(p) : p[k] = "/"}
        last == IF slashes = {} THEN 0
                ELSE CHOOSE k \in slashes : \A m \in slashes : m <= k
    IN SubSeq(p, last + 1, Len(p))

DotZip == <<".", "z", "i", "p">>
DotPdf == <<".", "p", "d", "f">>

\* ---------------------------------------------------------------- helpers
\* all orders in which a directory listing can return the names in S
Orderings(S) ==
    {f \in [1..Cardinality(S) -> S] : \A a, b \in 1..Cardinality(S) : a # b => f[a] # f[b]}

Range(s) == {s[k] : k \in 1..Len(s)}

RECURSIVE InsertSorted(_, _)
InsertSorted(e, s) ==
    IF s = <<>> THEN <<e>>
    ELSE IF StrLess(e, Head(s)) THEN <<e>> \o s
    ELSE <<Head(s)>> \o InsertSorted(e, Tail(s))

\* list.sort() on a list of str
RECURSIVE Sorted(_)
Sorted(s) == IF s = <<>> THEN <<>> ELSE InsertSorted(Head(s), Sorted(Tail(s)))

\* ---------------------------------------------------------------- inputs
\* names that can occur directly inside the target directory
aZip == <<"a", ".", "z", "i", "p">>
BZip == <<"B", ".", "Z", "I", "P">>
cZip == <<"c", ".", "z", "i", "p">>
eZip == <<"e", ".", "z", "i", "p">>
FZip == <<"F", ".", "Z", "I", "P">>
nTxt == <<"n", ".", "t", "x", "t">>
subName == <<"s", "u", "b">>
sZip == <<"s", ".", "z", "i", "p">>

\* member names inside the archives
xPdf == <<"x", ".", "p", "d", "f">>
dDir == <<"d", "/">>
dyPdf == <<"d", "/", "y", ".", "p", "d", "f">>
ZPdf == <<"Z", ".", "P", "D", "F">>
wTxt == <<"w", ".", "t", "x", "t">>
oTxt == <<"o", ".", "t", "x", "t">>
mergedPdf == <<"m", "e", "r", "g", "e", "d", ".", "p", "d", "f">>

\* an entry of the target directory tree: parent = <<>> means directly inside
Node(parent, name, kind) == [parent |-> parent, name |-> name, kind |-> kind]

Universe ==
    { Node(<<>>, aZip, "file"), Node(<<>>, BZip, "file"), Node(<<>>, cZip, "file"),
      Node(<<>>, eZip, "dir"), Node(<<>>, FZip, "dir"), Node(<<>>, nTxt, "file"),
      Node(<<>>, subName, "dir"), Node(subName, sZip, "file") }

\* ZipFile.namelist() of each archive that can be present
Namelist(name) ==
    CASE name = aZip -> <<dDir, dyPdf, xPdf>>
      [] name = BZip -> <<xPdf, ZPdf>>
      [] name = cZip -> <<wTxt>>
      [] OTHER -> <<>>

\* what a file holds is named by where it came from
Stale == <<"stale">>
Merged == <<"merged">>

StaleUniverse == {xPdf, oTxt, mergedPdf}

NoFiles == [p \in {} |-> Stale]
AbsentDest == [exists |-> FALSE, files |-> NoFiles, dirs |-> {}]
EmptyDest == [exists |-> TRUE, files |-> NoFiles, dirs |-> {}]

ArchiveStatus == {"ok", "badzip", "crc"}

\* ---------------------------------------------------------------- state
VARIABLES
    pc,                     \* position in batch_unzip / combine_pdfs
    dirExists,              \* the target directory exists
    perms,                  \* os.access(directory, R_OK / W_OK / X_OK)
    tree,                   \* entries of the target directory (besides combined_extraction)
    status,                 \* per archive opened so far: sound, not a ZIP, or failing testzip()
    pdf_merger_available,   \* module-level flag set by the PyPDF2 import
    dest,                   \* combined_extraction: exists, files (path -> origin), dirs
    removed,                \* line 126 removed a folder that held files
    zip_files,              \* the list the locator built
    idx,                    \* position of the for loop over zip_files (1-based)
    total_files_extracted,
    handles,                \* handles currently open
    written,                \* per archive: paths its extractall wrote
    raised,                 \* archives whose processing ended in the outer except
    all_extracted_files,    \* result of the verification walk
    pdf_files,              \* combine_pdfs: the candidates
    pidx,                   \* position of the for loop over pdf_files
    appended,               \* documents the merger holds, in order
    failed,                 \* candidates whose merger.append raised
    aborted                 \* the run returned on a setup error

vars == <<pc, dirExists, perms, tree, status, pdf_merger_available, dest, removed,
          zip_files, idx, total_files_extracted, handles, written, raised,
          all_extracted_files, pdf_files, pidx, appended, failed, aborted>>

\* names os.listdir(directory) returns (combined_extraction, when present, is
\* one more name; it is a folder whose name does not end in .zip and no
\* method below keeps it)
DirectNames(t) == {n.name : n \in {m \in t : m.parent = <<>>}}

\* os.path.isfile(os.path.join(directory, item))
IsFile(t, item) == \E n \in t : n.parent = <<>> /\ n.name = item /\ n.kind = "file"

ArchiveNames(t) == {nm \in DirectNames(t) : IsFile(t, nm) /\ EndsWith(Lower(nm), DotZip)}

TreeOk(t) ==
    /\ Cardinality(t) <= MaxEntries
    /\ (Node(subName, sZip, "file") \in t => Node(<<>>, subName, "dir") \in t)

StaleDests ==
    {AbsentDest} \cup
    { [exists |-> TRUE, files |-> [p \in S |-> Stale], dirs |-> {}] :
        S \in {T \in SUBSET StaleUniverse : Cardinality(T) <= MaxStale} }

Init ==
    /\ pc = "idle"
    /\ dirExists \in BOOLEAN
    /\ perms \in [{"r", "w", "x"} -> BOOLEAN]
    /\ tree \in {t \in SUBSET Universe : TreeOk(t)}
    /\ status = [nm \in {} |-> "ok"]
    /\ pdf_merger_available \in BOOLEAN
    /\ dest \in StaleDests
    /\ removed = FALSE
    /\ (~dirExists => /\ tree = {}
                      /\ perms = [a \in {"r", "w", "x"} |-> FALSE]
                      /\ dest = AbsentDest)
    /\ zip_files = <<>>
    /\ idx = 1
    /\ total_files_extracted = 0
    /\ handles = {}
    /\ written = [nm \in {} |-> {}]
    /\ raised = {}
    /\ all_extracted_files = {}
    /\ pdf_files = <<>>
    /\ pidx = 1
    /\ appended = <<>>
    /\ failed = {}
    /\ aborted = FALSE

\* ---------------------------------------------------------------- paths
\* directory_path (abbreviated) and the name "combined_extraction" (abbreviated)
Directory == <<"t">>
CombinedName == <<"c", "e">>
ExtractPath == OsPathJoin(Directory, CombinedName)

\* ---------------------------------------------------------------- locator
check_permissions(p) == p["r"] /\ p["w"] /\ p["x"]

\* Method 1: os.listdir filtered by isfile and a lower-cased .zip suffix
Method1(t, all_files) ==
    SelectSeq(all_files, LAMBDA item : IsFile(t, item) /\ EndsWith(Lower(item), DotZip))

\* Method 2: glob.glob(directory/*.zip): the pattern is matched as written,
\* names starting with a dot are left out, folders are not; then basename
Method2(t, all_files) ==
    LET matches == SelectSeq(all_files, LAMBDA f : f[1] # "." /\ EndsWith(f, DotZip))
    IN [k \in 1..Len(matches) |-> Basename(OsPathJoin(Directory, matches[k]))]

\* Method 3: every listed name with a lower-cased .zip suffix
Method3(t, all_files) ==
    SelectSeq(all_files, LAMBDA f : EndsWith(Lower(f), DotZip))

\* "Use the method that found files"
ChosenMethod(t, all_files) ==
    IF Len(Method1(t, all_files)) > 0 THEN 1
    ELSE IF Len(Method2(t, all_files)) > 0 THEN 2
    ELSE IF Len(Method3(t, all_files)) > 0 THEN 3
    ELSE 0

LocateZipFiles(t, all_files) ==
    CASE ChosenMethod(t, all_files) = 1 -> Method1(t, all_files)
      [] ChosenMethod(t, all_files) = 2 -> Method2(t, all_files)
      [] ChosenMethod(t, all_files) = 3 -> Method3(t, all_files)
      [] OTHER -> <<>>

Start ==
    /\ pc = "idle"
    /\ pc' = "check_exists"
    /\ UNCHANGED <<dirExists, perms, tree, status, pdf_merger_available, dest, removed,
                   zip_files, idx, total_files_extracted, handles, written, raised,
                   all_extracted_files, pdf_files, pidx, appended, failed, aborted>>

CheckExists ==
    /\ pc = "check_exists"
    /\ IF ~dirExists
       THEN pc' = "done" /\ aborted' = TRUE
       ELSE pc' = "check_perms" /\ aborted' = aborted
    /\ UNCHANGED <<dirExists, perms, tree, status, pdf_merger_available, dest, removed,
                   zip_files, idx, total_files_extracted, handles, written, raised,
                   all_extracted_files, pdf_files, pidx, appended, failed>>

CheckPerms ==
    /\ pc = "check_perms"
    /\ IF ~check_permissions(perms)
       THEN pc' = "done" /\ aborted' = TRUE
       ELSE pc' = "locate" /\ aborted' = aborted
    /\ UNCHANGED <<dirExists, perms, tree, status, pdf_merger_available, dest, removed,
                   zip_files, idx, total_files_extracted, handles, written, raised,
                   all_extracted_files, pdf_files, pidx, appended, failed>>

\* lines 89-120, "Using method 1"
LocateMethod1 ==
    /\ pc = "locate"
    /\ \E all_files \in Orderings(DirectNames(tree)) :
          /\ ChosenMethod(tree, all_files) = 1
          /\ zip_files' = LocateZipFiles(tree, all_files)
    /\ pc' = "recreate"
    /\ UNCHANGED <<dirExists, perms, tree, status, pdf_merger_available, dest, removed,
                   idx, total_files_extracted, handles, written, raised,
                   all_extracted_files, pdf_files, pidx, appended, failed, aborted>>

\* lines 89-120, "Using method 2": method 1 found nothing, glob did
LocateMethod2 ==
    /\ pc = "locate"
    /\ \E all_files \in Orderings(DirectNames(tree)) :
          /\ ChosenMethod(tree, all_files) = 2
          /\ zip_files' = LocateZipFiles(tree, all_files)
    /\ pc' = "recreate"
    /\ UNCHANGED <<dirExists, perms, tree, status, pdf_merger_available, dest, removed,
                   idx, total_files_extracted, handles, written, raised,
                   all_extracted_files, pdf_files, pidx, appended, failed, aborted>>

\* lines 89-120, "Using method 3": only the case-insensitive listing found something
LocateMethod3 ==
    /\ pc = "locate"
    /\ \E all_files \in Orderings(DirectNames(tree)) :
          /\ ChosenMethod(tree, all_files) = 3
          /\ zip_files' = LocateZipFiles(tree, all_files)
    /\ pc' = "recreate"
    /\ UNCHANGED <<dirExists, perms, tree, status, pdf_merger_available, dest, removed,
                   idx, total_files_extracted, handles, written, raised,
                   all_extracted_files, pdf_files, pidx, appended, failed, aborted>>

\* lines 116-118: no method found anything
LocateNone ==
    /\ pc = "locate"
    /\ \E all_files \in Orderings(DirectNames(tree)) :
          /\ ChosenMethod(tree, all_files) = 0
          /\ zip_files' = LocateZipFiles(tree, all_files)
    /\ pc' = "done"
    /\ aborted' = TRUE
    /\ UNCHANGED <<dirExists, perms, tree, status, pdf_merger_available, dest, removed,
                   idx, total_files_extracted, handles, written, raised,
                   all_extracted_files, pdf_files, pidx, appended, failed>>

\* ---------------------------------------------------------------- extractor
\* variant: makedirs(exist_ok=True) without the rmtree
RecreateDestKeeping(d) == IF d.exists THEN d ELSE EmptyDest

\* lines 124-128: rmtree when present, then makedirs
RecreateDest(d) == EmptyDest

\* folders ZipFile.extract creates above a member path
ParentDirs(p) == {SubSeq(p, 1, k) : k \in {m \in 1..Len(p) : p[m] = "/"}}

\* variant: a file that is already there is not overwritten
ExtractMemberKeeping(d, item, member) ==
    IF EndsWith(member, <<"/">>)
    THEN [d EXCEPT !.dirs = @ \cup ParentDirs(member)]
    ELSE [d EXCEPT !.files = @ @@ (member :> item),
                   !.dirs = @ \cup ParentDirs(member)]

\* ZipFile.extract of one member: a name ending in "/" makes a folder, any
\* other name writes (or overwrites) the file at that relative path
ExtractMember(d, item, member) ==
    IF EndsWith(member, <<"/">>)
    THEN [d EXCEPT !.dirs = @ \cup ParentDirs(member)]
    ELSE [d EXCEPT !.files = (member :> item) @@ @,
                   !.dirs = @ \cup ParentDirs(member)]

\* ZipFile.extractall over the first members of the archive, in namelist order
RECURSIVE ExtractMembers(_, _, _)
ExtractMembers(d, item, members) ==
    IF members = <<>> THEN d
    ELSE ExtractMembers(ExtractMember(d, item, Head(members)), item, Tail(members))

\* paths of the files (not folders) among the members
FileMembers(members) == {m \in Range(members) : ~EndsWith(m, <<"/">>)}

\* variant: folder members are counted too
FilesInZipAll(file_list) == Len(file_list)

\* line 166: len([f for f in file_list if not f.endswith('/')])
FilesInZip(file_list) == Len(SelectSeq(file_list, LAMBDA f : ~EndsWith(f, <<"/">>)))

\* variant: the result of testzip() is ignored
IsValidAlways(st) == TRUE

\* line 144: test_zip.testzip() is None
IsValid(st) == st # "crc"

\* where the for loop over zip_files goes after the item at position i
AfterItem(i) == IF i + 1 > Len(zip_files) THEN "verify" ELSE "open_test"

\* variant: a corrupt archive ends the run instead of the iteration
AfterSkipStops(i) == "done"

\* the `continue` statements of lines 148 and 151
AfterSkip(i) == AfterItem(i)

\* the outer `except Exception` of lines 170-174
AfterRaise(i) == AfterItem(i)

Item == zip_files[idx]

Recreate ==
    /\ pc = "recreate"
    /\ dest' = RecreateDest(dest)
    /\ removed' = (dest.exists /\ DOMAIN dest.files # {})
    /\ total_files_extracted' = 0
    /\ idx' = 1
    /\ written' = [nm \in Range(zip_files) |-> {}]
    /\ pc' = "open_test"
    /\ UNCHANGED <<dirExists, perms, tree, status, pdf_merger_available,
                   zip_files, handles, raised,
                   all_extracted_files, pdf_files, pidx, appended, failed, aborted>>

\* line 143 on a folder: open() raises, the outer except logs it
OpenTestRaises ==
    /\ pc = "open_test"
    /\ ~IsFile(tree, Item)
    /\ raised' = raised \cup {Item}
    /\ pc' = AfterRaise(idx)
    /\ idx' = idx + 1
    /\ UNCHANGED <<dirExists, perms, tree, status, pdf_merger_available, dest, removed,
                   zip_files, total_files_extracted, handles, written,
                   all_extracted_files, pdf_files, pidx, appended, failed, aborted>>

\* lines 143, 149-151: the file is not a ZIP, zipfile.BadZipFile
OpenTestBadZip ==
    /\ pc = "open_test"
    /\ IsFile(tree, Item)
    /\ status' = (Item :> "badzip") @@ status
    /\ pc' = AfterSkip(idx)
    /\ idx' = idx + 1
    /\ UNCHANGED <<dirExists, perms, tree, pdf_merger_available, dest, removed,
                   zip_files, total_files_extracted, handles, written, raised,
                   all_extracted_files, pdf_files, pidx, appended, failed, aborted>>

\* line 143: the archive opens; it is sound or has a member failing its check
OpenTest ==
    /\ pc = "open_test"
    /\ IsFile(tree, Item)
    /\ \E st \in ArchiveStatus \ {"badzip"} : status' = (Item :> st) @@ status
    /\ handles' = handles \cup {"test_zip"}
    /\ pc' = "testzip"
    /\ UNCHANGED <<dirExists, perms, tree, pdf_merger_available, dest, removed,
                   zip_files, idx, total_files_extracted, written, raised,
                   all_extracted_files, pdf_files, pidx, appended, failed, aborted>>

\* lines 144-148; leaving the with block closes test_zip on both paths
TestZip ==
    /\ pc = "testzip"
    /\ handles' = handles \ {"test_zip"}
    /\ IF IsValid(status[Item])
       THEN pc' = "open_extract" /\ idx' = idx
       ELSE pc' = AfterSkip(idx) /\ idx' = idx + 1
    /\ UNCHANGED <<dirExists, perms, tree, status, pdf_merger_available, dest, removed,
                   zip_files, total_files_extracted, written, raised,
                   all_extracted_files, pdf_files, pidx, appended, failed, aborted>>

\* line 153
OpenExtract ==
    /\ pc = "open_extract"
    /\ handles' = handles \cup {"zip_ref"}
    /\ pc' = "extractall"
    /\ UNCHANGED <<dirExists, perms, tree, status, pdf_merger_available, dest, removed,
                   zip_files, idx, total_files_extracted, written, raised,
                   all_extracted_files, pdf_files, pidx, appended, failed, aborted>>

\* lines 155-168, extraction succeeds
ExtractAll ==
    /\ pc = "extractall"
    /\ LET file_list == Namelist(Item)
       IN /\ dest' = ExtractMembers(dest, Item, file_list)
          /\ total_files_extracted' = total_files_extracted + FilesInZip(file_list)
          /\ written' = [written EXCEPT ![Item] = FileMembers(file_list)]
    /\ handles' = handles \ {"zip_ref"}
    /\ pc' = AfterItem(idx)
    /\ idx' = idx + 1
    /\ UNCHANGED <<dirExists, perms, tree, status, pdf_merger_available, removed,
                   zip_files, raised,
                   all_extracted_files, pdf_files, pidx, appended, failed, aborted>>

\* line 162 raises (I/O error) after k members were written; the with block
\* closes zip_ref, lines 166-167 are not reached, the outer except logs it
ExtractAllRaises ==
    /\ pc = "extractall"
    /\ \E k \in 0..(Len(Namelist(Item)) - 1) :
          LET done == SubSeq(Namelist(Item), 1, k)
          IN /\ dest' = ExtractMembers(dest, Item, done)
             /\ written' = [written EXCEPT ![Item] = FileMembers(done)]
    /\ raised' = raised \cup {Item}
    /\ handles' = handles \ {"zip_ref"}
    /\ pc' = AfterRaise(idx)
    /\ idx' = idx + 1
    /\ UNCHANGED <<dirExists, perms, tree, status, pdf_merger_available, removed,
                   zip_files, total_files_extracted,
                   all_extracted_files, pdf_files, pidx, appended, failed, aborted>>

\* lines 176-186: os.walk(extract_path), files only
WalkFiles(d) == {OsPathJoin(ExtractPath, p) : p \in DOMAIN d.files}

Verify ==
    /\ pc = "verify"
    /\ all_extracted_files' = WalkFiles(dest)
    /\ pc' = "merge_gate"
    /\ UNCHANGED <<dirExists, perms, tree, status, pdf_merger_available, dest, removed,
                   zip_files, idx, total_files_extracted, handles, written, raised,
                   pdf_files, pidx, appended, failed, aborted>>

\* ---------------------------------------------------------------- merger
\* lines 34-38: files at any depth whose name, lower-cased, ends in .pdf
PdfCandidates(d) ==
    {OsPathJoin(ExtractPath, p) : p \in {q \in DOMAIN d.files : EndsWith(Lower(Basename(q)), DotPdf)}}

\* variant: the list is left in walk order
SortPdfFilesUnsorted(found) == found

\* line 47: pdf_files.sort()
SortPdfFiles(found) == Sorted(found)

\* where the for loop over pdf_files goes after the candidate at position k
AfterPdf(k) == IF k + 1 > Len(pdf_files) THEN "write" ELSE "append"

\* lines 189-193
MergeGate ==
    /\ pc = "merge_gate"
    /\ pc' = IF pdf_merger_available THEN "find_pdfs" ELSE "done"
    /\ UNCHANGED <<dirExists, perms, tree, status, pdf_merger_available, dest, removed,
                   zip_files, idx, total_files_extracted, handles, written, raised,
                   all_extracted_files, pdf_files, pidx, appended, failed, aborted>>

\* lines 33-42 with no candidate: return
FindPdfsNone ==
    /\ pc = "find_pdfs"
    /\ PdfCandidates(dest) = {}
    /\ pc' = "done"
    /\ UNCHANGED <<dirExists, perms, tree, status, pdf_merger_available, dest, removed,
                   zip_files, idx, total_files_extracted, handles, written, raised,
                   all_extracted_files, pdf_files, pidx, appended, failed, aborted>>

\* lines 33-53: os.walk returns the candidates in some order, the list is
\* sorted, the merger is created
FindPdfs ==
    /\ pc = "find_pdfs"
    /\ PdfCandidates(dest) # {}
    /\ \E found \in Orderings(PdfCandidates(dest)) : pdf_files' = SortPdfFiles(found)
    /\ handles' = handles \cup {"merger"}
    /\ pidx' = 1
    /\ pc' = "append"
    /\ UNCHANGED <<dirExists, perms, tree, status, pdf_merger_available, dest, removed,
                   zip_files, idx, total_files_extracted, written, raised,
                   all_extracted_files, appended, failed, aborted>>

\* lines 57-59: merger.append(pdf) succeeds
AppendPdf ==
    /\ pc = "append"
    /\ appended' = Append(appended, pdf_files[pidx])
    /\ pc' = AfterPdf(pidx)
    /\ pidx' = pidx + 1
    /\ UNCHANGED <<dirExists, perms, tree, status, pdf_merger_available, dest, removed,
                   zip_files, idx, total_files_extracted, handles, written, raised,
                   all_extracted_files, pdf_files, failed, aborted>>

\* lines 57-61: merger.append(pdf) raises, the inner except logs it
AppendPdfRaises ==
    /\ pc = "append"
    /\ failed' = failed \cup {pdf_files[pidx]}
    /\ pc' = AfterPdf(pidx)
    /\ pidx' = pidx + 1
    /\ UNCHANGED <<dirExists, perms, tree, status, pdf_merger_available, dest, removed,
                   zip_files, idx, total_files_extracted, handles, written, raised,
                   all_extracted_files, pdf_files, appended, aborted>>

\* lines 64-69: merger.write(output_path), then merger.close()
WriteMerged ==
    /\ pc = "write"
    /\ dest' = [dest EXCEPT !.files = (mergedPdf :> Merged) @@ @]
    /\ handles' = handles \ {"merger"}
    /\ pc' = "done"
    /\ UNCHANGED <<dirExists, perms, tree, status, pdf_merger_available, removed,
                   zip_files, idx, total_files_extracted, written, raised,
                   all_extracted_files, pdf_files, pidx, appended, failed, aborted>>

\* lines 65, 70-73: merger.write raises, either before the output file was
\* created or after; control goes to the except of line 70, past line 66
WriteMergedRaises ==
    /\ pc = "write"
    /\ \E created \in BOOLEAN :
          dest' = IF created THEN [dest EXCEPT !.files = (mergedPdf :> Merged) @@ @]
                  ELSE dest
    /\ pc' = "done"
    /\ UNCHANGED <<dirExists, perms, tree, status, pdf_merger_available, removed,
                   zip_files, idx, total_files_extracted, handles, written, raised,
                   all_extracted_files, pdf_files, pidx, appended, failed, aborted>>

\* ---------------------------------------------------------------- specification
Next ==
    \/ Start
    \/ CheckExists
    \/ CheckPerms
    \/ LocateMethod1
    \/ LocateMethod2
    \/ LocateMethod3
    \/ LocateNone
    \/ Recreate
    \/ OpenTestRaises
    \/ OpenTestBadZip
    \/ OpenTest
    \/ TestZip
    \/ OpenExtract
    \/ ExtractAll
    \/ ExtractAllRaises
    \/ Verify
    \/ MergeGate
    \/ FindPdfsNone
    \/ FindPdfs
    \/ AppendPdf
    \/ AppendPdfRaises
    \/ WriteMerged
    \/ WriteMergedRaises

Spec == Init /\ [][Next]_vars

\* the script is one sequential thread: whenever a step is possible, one is taken
FairSpec == Spec /\ WF_vars(Next)

\* ---------------------------------------------------------------- properties
\* an archive that fails to open as a ZIP or fails the testzip check
Corrupt(a) == a \in DOMAIN status /\ status[a] \in {"badzip", "crc"}

\* an archive that opens and passes the check
Valid(a) == a \in DOMAIN status /\ status[a] = "ok"

Listed == Range(zip_files)

\* archives whose extractall ran to its end
Extracted == {a \in Listed : Valid(a) /\ a \notin raised}

PositionOf(a) == CHOOSE k \in 1..Len(zip_files) : zip_files[k] = a

\* C1: at the end of the extraction loop every listed archive has been
\* visited, no file in the destination comes from a corrupt archive, every
\* file of every valid archive whose extraction ran to its end is there with
\* content from a valid archive, and when no extraction raised the
\* destination holds exactly the files of the valid archives.
C1_CorruptSkippedOthersExtracted ==
    pc = "verify" =>
        /\ idx = Len(zip_files) + 1
        /\ \A p \in DOMAIN dest.files : ~Corrupt(dest.files[p])
        /\ \A a \in Extracted :
              \A p \in FileMembers(Namelist(a)) :
                  /\ p \in DOMAIN dest.files
                  /\ \E b \in Listed : /\ Valid(b)
                                       /\ dest.files[p] = b
                                       /\ p \in FileMembers(Namelist(b))
        /\ (raised = {} =>
              DOMAIN dest.files =
                  UNION {FileMembers(Namelist(a)) : a \in {b \in Listed : Valid(b)}})

\* a.zip valid, B.ZIP (or another) corrupt in the middle, a valid one after it
C1_Witness ==
    /\ pc = "verify"
    /\ Len(zip_files) = 3
    /\ Valid(zip_files[1]) /\ Corrupt(zip_files[2]) /\ Valid(zip_files[3])
    /\ raised = {}
    /\ DOMAIN dest.files # {}

NoStaleFile ==
    \A p \in DOMAIN dest.files :
        \/ dest.files[p] \in Listed
        \/ (dest.files[p] = Merged /\ p = mergedPdf)

\* C2 (as claimed): after any run, aborted ones included, no file in the
\* destination is left over from before the run.
C2_Original == pc = "done" => NoStaleFile

\* C2 (amended): once a run that did not abort on a setup error has recreated
\* the destination, every file in it comes from a listed archive of this run
\* or is the merged.pdf this run wrote.
C2_NoStaleAfterRecreate ==
    (~aborted /\ pc \notin {"idle", "check_exists", "check_perms", "locate", "recreate"}) =>
        (dest.exists /\ NoStaleFile)

\* a finished run over a destination that held a stale file
C2_Witness ==
    /\ pc = "done" /\ ~aborted
    /\ removed
    /\ DOMAIN dest.files # {}

\* valid, fully extracted archives that hold path p
Holders(p) == {a \in Extracted : p \in FileMembers(Namelist(a))}

\* no archive whose extraction raised wrote p
Undisturbed(p) == \A a \in raised : p \notin written[a]

\* C3 (as claimed): a path held by two valid archives ends with the content
\* of the one whose name is later in sort order, whatever the listing order.
C3_Original ==
    pc = "verify" =>
        \A p \in DOMAIN dest.files :
            (Cardinality(Holders(p)) >= 2 /\ Undisturbed(p)) =>
                \A a \in Holders(p) : a = dest.files[p] \/ StrLess(a, dest.files[p])

\* C3 (amended): a path held by two valid archives that were both extracted
\* without error ends with the content of the one that is later in zip_files,
\* the order in which the directory listing returned them.
C3_LaterInListingWins ==
    pc = "verify" =>
        \A p \in DOMAIN dest.files :
            (Cardinality(Holders(p)) >= 2 /\ Undisturbed(p)) =>
                /\ dest.files[p] \in Holders(p)
                /\ \A a \in Holders(p) : PositionOf(a) <= PositionOf(dest.files[p])

\* a.zip listed before B.ZIP although "B.ZIP" sorts before "a.zip"
C3_Witness ==
    /\ pc = "verify"
    /\ Holders(xPdf) = {aZip, BZip}
    /\ PositionOf(aZip) < PositionOf(BZip)
    /\ dest.files[xPdf] = BZip

RECURSIVE SumFileMembers(_)
SumFileMembers(archives) ==
    IF archives = <<>> THEN 0
    ELSE Cardinality(FileMembers(Namelist(Head(archives)))) + SumFileMembers(Tail(archives))

PairwiseDisjoint ==
    \A a, b \in Listed :
        a # b => FileMembers(Namelist(a)) \cap FileMembers(Namelist(b)) = {}

\* C4: when every listed archive is valid, no two share a path and every
\* extraction ran to its end, the running count after the loop is the sum of
\* the archives' non-folder members and is the number of files the
\* verification walk found.
C4_CountMatches ==
    (pc = "merge_gate" /\ Extracted = Listed /\ PairwiseDisjoint) =>
        /\ total_files_extracted = SumFileMembers(zip_files)
        /\ total_files_extracted = Cardinality(all_extracted_files)

\* two disjoint valid archives, one of them with a folder member
C4_Witness ==
    /\ pc = "merge_gate"
    /\ Listed = {aZip, cZip}
    /\ Extracted = Listed
    /\ total_files_extracted = 3

\* one of the fatal setup conditions holds
FatalSetup ==
    \/ ~dirExists
    \/ ~check_permissions(perms)
    \/ ArchiveNames(tree) = {}

\* C5: in a run over a missing directory, a directory without full permission
\* or a directory without .zip files, no step changes combined_extraction and
\* the run ends by aborting.
C5_SetupErrorLeavesFilesystem ==
    [][FatalSetup => (dest' = dest /\ (pc' = "done" => aborted'))]_vars

\* C6: a run that got past setup and appended no candidate leaves no
\* merged.pdf in the destination.
C6_NoMergedWithoutAppend ==
    (pc = "done" /\ ~aborted /\ appended = <<>>) => mergedPdf \notin DOMAIN dest.files

\* C7: when the append loop is over, the documents in the merger are the
\* candidates that did not fail, each once, ascending by full path.
C7_AppendedSortedWithoutFailed ==
    pc = "write" =>
        /\ Range(appended) = PdfCandidates(dest) \ failed
        /\ failed \subseteq PdfCandidates(dest)
        /\ \A k \in 1..(Len(appended) - 1) : StrLess(appended[k], appended[k + 1])

\* the middle candidate failed, the ones around it were appended
C7_Witness ==
    /\ pc = "write"
    /\ failed = {OsPathJoin(ExtractPath, dyPdf)}
    /\ appended = <<OsPathJoin(ExtractPath, ZPdf), OsPathJoin(ExtractPath, xPdf)>>

PhaseOf(p) ==
    CASE p = "idle" -> 0
      [] p \in {"check_exists", "check_perms", "locate"} -> 1
      [] p \in {"recreate", "open_test", "testzip", "open_extract", "extractall", "verify"} -> 2
      [] p \in {"merge_gate", "find_pdfs", "append", "write"} -> 3
      [] OTHER -> 4

PhaseStep ==
    \/ PhaseOf(pc') = PhaseOf(pc)
    \/ PhaseOf(pc') = PhaseOf(pc) + 1
    \/ (PhaseOf(pc) = 1 /\ PhaseOf(pc') = 4 /\ zip_files' = <<>>)

\* C8: the phase (Idle 0, Locating 1, Extracting 2, Merging 3, Done 4) stays
\* or moves to the next one, or goes from Locating to Done with no archive
\* found; and every run reaches Done.
C8_PhasesForwardToDone == [][PhaseStep]_vars /\ <>(pc = "done")

\* a finished run that met a corrupt archive, a raising one and a failing PDF
C8_Witness ==
    /\ pc = "done"
    /\ \E a \in Listed : Corrupt(a)
    /\ raised # {}
    /\ failed # {}

\* C9: the list handed to the extraction loop is exactly the regular files
\* directly inside the target whose name ends in .zip in any case, and a run
\* with no such file aborts.
C9_LocatorExact ==
    (dirExists /\ check_permissions(perms)
        /\ pc \notin {"idle", "check_exists", "check_perms", "locate"}) =>
        /\ Listed = ArchiveNames(tree)
        /\ Len(zip_files) = Cardinality(ArchiveNames(tree))
        /\ (ArchiveNames(tree) = {} => aborted)

\* C10: no handle is open when the run is over.
C10_NoHandleAtEnd == pc = "done" => handles = {}

====
